---- MODULE Spec2Model ----
(***************************************************************************)
(* Model of the LabJack stream controller (labjack_stream_control.py):    *)
(* StreamedLabJackController and run_pulsed_stream, at the granularity of  *)
(* one step per hardware call (ljm.eWriteName, eStreamStart, eStreamRead,  *)
(* eStreamStop, close).                                                    *)
(*                                                                         *)
(* Units.  The source works in floats; the model uses integers:            *)
(*   voltages in millivolts, frequencies given by the caller in            *)
(*   millihertz, pulse widths and wall-clock time in microseconds.         *)
(* A sample list (waveform or device buffer) is kept run-length encoded:   *)
(* a sequence of runs [v |-> value, c |-> count], c >= 1, adjacent runs    *)
(* holding different values.  The encoding is lossless (SNth gives back    *)
(* every element).                                                         *)
(***************************************************************************)
EXTENDS Integers, Sequences, FiniteSets, TLC

(* ------------------------------------------------------------------ *)
(* Program constants (labjack_stream_control.py lines 27-47)           *)
(* ------------------------------------------------------------------ *)
STREAM_SCAN_RATE_HZ == 4000

SCANS_PER_READ == 400

LED_FREQUENCY_HZ == 250

LED_AMPLITUDE_MV == 2000

LED_OFFSET_MV == 2500

LED_IDLE_MV == 0

STREAM_OUT_INDEX == 0

TTL_STREAM_OUT_INDEX == 1

FIO0_MASK_ALLOW == 254

START_PULSE_WIDTH_US == 1000

POST_RUN_PADDING_US == 100000

MIN_BUFFER_SIZE == 512

MAX_BUFFER_SIZE == 8192

WRITE_ATTEMPTS == 3

MIN_RATE_MHZ == 100

InputNames == <<"AIN0", "AIN1", "AIN2">>

(* ------------------------------------------------------------------ *)
(* Bounds of the model                                                   *)
(* ------------------------------------------------------------------ *)
\* largest device backlog eStreamRead reports in the model
MaxBacklog == 3

\* the backlog threshold the specification speaks of (the code has none)
BacklogThreshold == 1

(* ------------------------------------------------------------------ *)
(* Run-length encoded sample lists                                       *)
(* ------------------------------------------------------------------ *)
RECURSIVE SLen(_)
SLen(s) ==
    IF s = <<>> THEN 0 ELSE Head(s).c + SLen(Tail(s))

RECURSIVE SNth(_, _)
SNth(s, i) ==
    IF i <= Head(s).c THEN Head(s).v ELSE SNth(Tail(s), i - Head(s).c)

\* [v] * c
Repeat(v, c) ==
    IF c <= 0 THEN <<>> ELSE << [v |-> v, c |-> c] >>

\* list.append(v)
SAppend(s, v) ==
    IF s # <<>> /\ s[Len(s)].v = v
    THEN [s EXCEPT ![Len(s)].c = @ + 1]
    ELSE Append(s, [v |-> v, c |-> 1])

\* a + b
SConcat(a, b) ==
    IF a = <<>> THEN b
    ELSE IF b = <<>> THEN a
    ELSE IF a[Len(a)].v = b[1].v
         THEN [a EXCEPT ![Len(a)].c = @ + b[1].c] \o Tail(b)
         ELSE a \o b

\* s[:k]
RECURSIVE STake(_, _)
STake(s, k) ==
    IF k <= 0 \/ s = <<>> THEN <<>>
    ELSE IF Head(s).c >= k THEN << [v |-> Head(s).v, c |-> k] >>
    ELSE << Head(s) >> \o STake(Tail(s), k - Head(s).c)

(* ------------------------------------------------------------------ *)
(* Arithmetic of the source                                              *)
(* ------------------------------------------------------------------ *)
Max(a, b) == IF a >= b THEN a ELSE b

Min(a, b) == IF a <= b THEN a ELSE b

\* Python round(p / q) for p >= 0, q > 0: nearest integer, ties to even
RoundHalfEven(p, q) ==
    LET f == p \div q
        r == 2 * (p % q)
    IN  IF r < q THEN f
        ELSE IF r > q THEN f + 1
        ELSE IF f % 2 = 0 THEN f ELSE f + 1

\* 2 ** int(math.ceil(math.log2(n))) for n >= 1: the least power of two >= n
RECURSIVE Pow2AtLeast(_, _)
Pow2AtLeast(p, n) ==
    IF p >= n THEN p ELSE Pow2AtLeast(2 * p, n)

\* a buffer size clamped to the limits but not rounded up to a power of two
BufferSizeExact(n) ==
    Min(Max(MIN_BUFFER_SIZE, n), MAX_BUFFER_SIZE)

\* line 195-196: the buffer size _configure_stream_out chooses for a waveform of n samples
BufferSizeFor(n) ==
    Min(Max(MIN_BUFFER_SIZE, Pow2AtLeast(1, Max(1, n))), MAX_BUFFER_SIZE)

\* 1000 * sin(pi * u / n) for 0 <= u <= n (Bhaskara's rational approximation of math.sin)
HalfSinMilli(u, n) ==
    (16000 * u * (n - u)) \div (5 * n * n - 4 * u * (n - u))

\* 1000 * math.sin((2 * math.pi * i) / n)
SinMilli(i, n) ==
    IF 2 * i <= n THEN HalfSinMilli(2 * i, n) ELSE 0 - HalfSinMilli(2 * i - n, n)

\* line 139: one sample of the LED sine, in millivolts
SineSample(i, n) ==
    LED_OFFSET_MV + (LED_AMPLITUDE_MV * SinMilli(i, n)) \div 1000

\* lines 138-141: the list comprehension, samples 0 .. n-1
RECURSIVE SineWaveform(_, _)
SineWaveform(k, n) ==
    IF k = 0 THEN <<>> ELSE SAppend(SineWaveform(k - 1, n), SineSample(k - 1, n))

(* ------------------------------------------------------------------ *)
(* Port words of the shared FIO port                                     *)
(* ------------------------------------------------------------------ *)
\* line 158 / 283: (FIO0_MASK_ALLOW << 8) | 0x01
HighWord == FIO0_MASK_ALLOW * 256 + 1

\* line 159 / 283: (FIO0_MASK_ALLOW << 8)
LowWord == FIO0_MASK_ALLOW * 256

Bit(x, b) == (x \div (2 ^ b)) % 2

\* The device applies a port word: the upper byte inhibits lines, the lower byte
\* gives the level of every line that is not inhibited.
ApplyPortWord(port, word) ==
    LET inhibit == word \div 256
        state == word % 256
        lvl(b) == IF Bit(inhibit, b) = 1 THEN Bit(port, b) ELSE Bit(state, b)
    IN  lvl(0) + 2 * lvl(1) + 4 * lvl(2) + 8 * lvl(3)
        + 16 * lvl(4) + 32 * lvl(5) + 64 * lvl(6) + 128 * lvl(7)

\* ljm.nameToAddress for the two stream-out targets the program uses
NameToAddress(name) ==
    IF name = "DAC0" THEN 1000 ELSE 2500


(* ------------------------------------------------------------------ *)
(* Inputs of the model                                                   *)
(* ------------------------------------------------------------------ *)
\* num_frames given to run_pulsed_stream
NumFrames == {0, 2}

\* trigger_rate_hz given to run_pulsed_stream, in millihertz
TriggerRates == {30000, 1600000}

\* pulse_width_s given to run_pulsed_stream, in microseconds
PulseWidths == {START_PULSE_WIDTH_US}

\* the scan rates eStreamStart may report back
ActualRates == {STREAM_SCAN_RATE_HZ, STREAM_SCAN_RATE_HZ - 1}

\* how long one blocking eStreamRead may take, in microseconds
ReadTimesUs == {50000, 100000}

\* the lengths of the flat list eStreamRead may return
DataLens == {0, 4, 3 * SCANS_PER_READ + 4}

\* the level of the eight FIO lines when the handle is opened
FioInit == {0, 171}

\* the outcome of one register write: done, a transient I/O failure (any other
\* LJMError), or MBE2_ILLEGAL_DATA_ADDRESS (the device lacks the register)
WriteOutcomes == {"ok", "io", "illegal"}

\* the outcome of a write to one of the optional digital registers
\* (DIO_ANALOG_ENABLE, FIO_DIRECTION, FIO_STATE): whether the register exists
\* is a fixed property of the device and firmware, so a device that has it
\* never answers MBE2_ILLEGAL_DATA_ADDRESS and one that lacks it never accepts
\* the write.
OptionalOutcomes(d) ==
    IF d.has_optional THEN {"ok", "io"} ELSE {"illegal", "io"}

(* ------------------------------------------------------------------ *)
(* State                                                                 *)
(* ------------------------------------------------------------------ *)
VARIABLES
    dev,        \* the device: scan loop, stream-out channels, DAC0, FIO port
    handle,     \* the LJM handle: "none", "open" or "closed"
    ctl,        \* the fields of the StreamedLabJackController object
    args,       \* the arguments of run_pulsed_stream and the module-level
                \* configuration (lines 27, 29) the run is built with
    pc,         \* the statement the thread of control is at
    stack,      \* return labels of the calls in progress, innermost first
    pending,    \* exception the finally block of run_pulsed_stream re-raises
    exc,        \* exception that left run_pulsed_stream (or reached the API caller)
    ld,         \* locals of _configure_stream_out
    rd,         \* locals of run_pulsed_stream and log_chunk
    now,        \* time.time(), microseconds
    hist,       \* history: what the claims observe, never read by the program
    cam         \* the camera thread of run_experiment.main: its position in
                \* acquire_triggered_frames and its locals

vars == <<dev, handle, ctl, args, pc, stack, pending, exc, ld, rd, now, hist, cam>>

\* no camera thread: run_pulsed_stream called on its own
NoCamera ==
    [pc |-> "none", frames_saved |-> 0, ready_at |-> 0, begun |-> FALSE]

\* a stream-out channel nobody configured
IdleChannel ==
    [enable |-> 0, target |-> 0, buffer_size |-> 0, loop_size |-> 0,
     buffer |-> <<>>, set_loop |-> 0]

NoLoad ==
    [index |-> 0, target |-> "DAC0", waveform |-> <<>>, vtype |-> "f32",
     i |-> 0, attempt |-> 0]

NoRow == [index |-> -1, time |-> <<0, 1>>, values |-> <<>>]

InitRun ==
    [csv_open |-> FALSE, sample_index |-> 0, sample_period |-> <<0, 1>>,
     ttl_end_time |-> 0, end_time |-> 0, data_len |-> 0, scans |-> 0,
     scan |-> 0, last_row |-> NoRow]

InitHist ==
    [fails |-> 0, ops |-> <<>>, ss_calls |-> 0, ss_entry |-> <<>>,
     ss_raised |-> "none", prev_len |-> -1, over |-> FALSE, reported_rate |-> 0,
     pulses |-> 0, word |-> -1, fio_open |-> 0, start_pulse |-> FALSE,
     call |-> <<>>, caught |-> <<>>]

\* the history when the handle is opened on device d
HistAt(d) ==
    [InitHist EXCEPT !.fio_open = d.fio]

\* lines 80-90: the fields __init__ sets
InitCtl ==
    [scan_list |-> <<>>, actual_rate |-> STREAM_SCAN_RATE_HZ,
     ttl_waveform |-> <<>>, ttl_duration |-> 0, ttl_num_pulses |-> 0,
     num_inputs |-> 0]

InitDev ==
    { [streaming |-> s, out |-> [i \in 0..1 |-> IdleChannel], dac0 |-> d, fio |-> f, scan0 |-> 0,
       has_optional |-> h] :
        s \in BOOLEAN, d \in {LED_IDLE_MV, LED_OFFSET_MV}, f \in FioInit,
        h \in BOOLEAN }

InitArgs ==
    { [num_frames |-> n, rate_mhz |-> r, width_us |-> w, log |-> l,
       scan_rate_hz |-> STREAM_SCAN_RATE_HZ,
       led_frequency_mhz |-> 1000 * LED_FREQUENCY_HZ,
       input_names |-> InputNames] :
        n \in NumFrames, r \in TriggerRates, w \in PulseWidths, l \in BOOLEAN }

Init ==
    /\ dev \in InitDev
    /\ handle = "none"
    /\ ctl = InitCtl
    /\ args \in InitArgs
    /\ pc = "start"
    /\ stack = <<>>
    /\ pending = "none"
    /\ exc = "none"
    /\ ld = NoLoad
    /\ rd = InitRun
    /\ now = 0
    /\ hist = HistAt(dev)
    /\ cam = NoCamera

(* ------------------------------------------------------------------ *)
(* The device (ljm): what a register write and the stream calls do       *)
(* ------------------------------------------------------------------ *)
\* ljm.eWriteName done: the register takes the value.  Allocating a stream-out
\* buffer (BUFFER_SIZE) gives the channel a fresh, empty buffer; a BUFFER_F32 /
\* BUFFER_U16 write appends one sample; FIO_STATE takes a port word.
DevWrite(d, reg, idx, val) ==
    CASE reg = "ENABLE" -> [d EXCEPT !.out[idx].enable = val]
      [] reg = "TARGET" -> [d EXCEPT !.out[idx].target = val]
      [] reg = "BUFFER_SIZE" ->
            [d EXCEPT !.out[idx].buffer_size = val, !.out[idx].buffer = <<>>]
      [] reg = "LOOP_SIZE" -> [d EXCEPT !.out[idx].loop_size = val]
      [] reg = "BUFFER" -> [d EXCEPT !.out[idx].buffer = SAppend(@, val)]
      [] reg = "SET_LOOP" -> [d EXCEPT !.out[idx].set_loop = val]
      [] reg = "DAC0" -> [d EXCEPT !.dac0 = val]
      [] reg = "FIO_STATE" -> [d EXCEPT !.fio = ApplyPortWord(@, val)]
      [] OTHER -> d

\* the register name of stream-out i on a scan list
StreamOutName(i) ==
    IF i = 0 THEN "STREAM_OUT0" ELSE "STREAM_OUT1"

\* ljm.eStreamStart done: the scan loop runs and every enabled stream-out of the
\* scan list starts playing its buffer into its target.
DevStreamStart(d, scan_list) ==
    LET plays(i) ==
            /\ d.out[i].enable = 1
            /\ d.out[i].buffer # <<>>
            /\ \E k \in 1..Len(scan_list) : scan_list[k] = StreamOutName(i)
    IN  [d EXCEPT
           !.streaming = TRUE,
           !.scan0 = now,
           !.dac0 = IF plays(0) /\ d.out[0].target = NameToAddress("DAC0")
                    THEN SNth(d.out[0].buffer, 1) ELSE @,
           !.fio = IF plays(1) /\ d.out[1].target = NameToAddress("FIO_STATE")
                   THEN ApplyPortWord(@, SNth(d.out[1].buffer, 1)) ELSE @]

\* stream-out i is being played by the running scan loop
Playing(d, scan_list, i) ==
    /\ d.streaming
    /\ d.out[i].enable = 1
    /\ d.out[i].buffer # <<>>
    /\ \E k \in 1..Len(scan_list) : scan_list[k] = StreamOutName(i)

\* the scans the loop has completed at time t (microseconds) at the given
\* rate (hertz); one scan plays one sample of every stream-out
ScansPlayed(d, rate, t) ==
    (((t - d.scan0) \div 1000) * rate) \div 1000

\* the sample a looping stream-out plays on scan number n (from 0)
SampleAt(ch, n) ==
    SNth(ch.buffer, (n % Min(ch.loop_size, SLen(ch.buffer))) + 1)

\* the device at time t while the program waits: the stream-outs being played
\* have driven their targets with the sample of the current scan
DevAdvance(d, scan_list, rate, t) ==
    LET n == ScansPlayed(d, rate, t)
    IN  [d EXCEPT
           !.dac0 = IF Playing(d, scan_list, 0) /\ d.out[0].target = NameToAddress("DAC0")
                    THEN SampleAt(d.out[0], n) ELSE @,
           !.fio = IF Playing(d, scan_list, 1) /\ d.out[1].target = NameToAddress("FIO_STATE")
                   THEN ApplyPortWord(@, SampleAt(d.out[1], n)) ELSE @]

\* the pulses a looping pulse waveform has put on FIO0 by scan number n: one
\* per period begun, or a single one when the waveform never goes low
PulsesPlayed(ch, n) ==
    LET period == Min(ch.loop_size, SLen(ch.buffer))
    IN  IF \A k \in 1..Len(ch.buffer) : ch.buffer[k].v % 2 = 1
        THEN 1
        ELSE n \div period + 1

\* history: the pulses the TTL playback has emitted when the device is d at
\* time t
PulsesAt(h, d, scan_list, rate, t) ==
    IF Playing(d, scan_list, TTL_STREAM_OUT_INDEX)
    THEN [h EXCEPT !.pulses = PulsesPlayed(d.out[TTL_STREAM_OUT_INDEX],
                                            ScansPlayed(d, rate, t))]
    ELSE h

\* ljm.eStreamStop done
DevStreamStop(d) ==
    [d EXCEPT !.streaming = FALSE]

(* ------------------------------------------------------------------ *)
(* Control flow: calls, returns, exceptions                              *)
(* ------------------------------------------------------------------ *)
Call(entry, ret) ==
    /\ pc' = entry
    /\ stack' = <<ret>> \o stack

Return ==
    /\ pc' = Head(stack)
    /\ stack' = Tail(stack)

\* The frames from the innermost one whose call sits in a try block that catches
\* `kind`: close() catches LJMError around its call of stop_stream (lines 296-299).
RECURSIVE HandlerFrames(_, _)
HandlerFrames(s, kind) ==
    IF s = <<>> THEN <<>>
    ELSE IF Head(s) = "cl_close" /\ kind = "LJMError" THEN s
    ELSE HandlerFrames(Tail(s), kind)

\* An exception raised outside the try body of run_pulsed_stream: it unwinds to
\* the innermost handler, or leaves run_pulsed_stream.
Raise(kind) ==
    LET h == HandlerFrames(stack, kind)
    IN  IF h = <<>>
        THEN /\ pc' = "raised"
             /\ stack' = <<>>
             /\ exc' = kind
             /\ pending' = "none"
        ELSE /\ pc' = Head(h)
             /\ stack' = Tail(h)
             /\ exc' = exc
             /\ pending' = pending

\* history: the failure `o` of the hardware call `reg` is discarded by the
\* except clause of `by` and never reaches the caller of `by`
Swallowed(h, reg, o, by) ==
    [h EXCEPT !.caught = <<reg, o, by>>]

\* history: the failure `o` of `reg` unwinds the stack; when the call came from
\* the try block of close() (lines 296-299) it is discarded there
Unwound(h, reg, o) ==
    IF HandlerFrames(stack, "LJMError") # <<>>
    THEN Swallowed(h, reg, o, "close")
    ELSE h

\* history: _write_optional_register(reg, ...) got the outcome `o` (lines 286-292)
OptionalWritten(h, reg, o) ==
    IF o = "ok" THEN h
    ELSE IF o = "illegal" THEN Swallowed(h, reg, o, "_write_optional_register")
    ELSE Unwound(h, reg, o)

\* the outcome of ljm.eStreamStop: done, a transient I/O failure, or the
\* device's report that no stream was running
StopOutcomes(d) ==
    IF d.streaming THEN {"ok", "io"} ELSE {"ok", "io", "stopped"}

(* ------------------------------------------------------------------ *)
(* StreamedLabJackController.__init__ and _configure_channels            *)
(* ------------------------------------------------------------------ *)
\* lines 78-91: ljm.openS, getHandleInfo, the fields, then _configure_channels
\* branches on the device type (line 97).
Construct ==
    /\ pc = "start"
    /\ \E opened \in BOOLEAN, t4 \in BOOLEAN :
          IF opened
          THEN /\ handle' = "open"
               /\ ctl' = InitCtl
               /\ pc' = IF t4 THEN "cc_t4" ELSE "cc_stop"
               /\ UNCHANGED <<stack, exc, pending>>
          ELSE /\ Raise("LJMError")
               /\ UNCHANGED <<handle, ctl>>
    /\ UNCHANGED <<dev, args, cam, ld, rd, now, hist>>

\* lines 107-110: eStreamStop inside try / except LJMError: pass
CcStreamStop ==
    /\ pc = "cc_stop"
    /\ \E stopped \in BOOLEAN :
          dev' = IF stopped /\ dev.streaming THEN DevStreamStop(dev) ELSE dev
    /\ pc' = "cc_trig"
    /\ UNCHANGED <<handle, ctl, args, cam, stack, pending, exc, ld, rd, now, hist>>

\* the statement after each plain configuration write of _configure_channels
CcNext(p) ==
    CASE p = "cc_t4" -> "cc_dir"
      [] p = "cc_trig" -> "cc_clk"
      [] p = "cc_clk" -> "cc_dio"
      [] p = "cc_batch" -> "cc_dir"

\* lines 99-104, 111, 112, 119: eWriteName / eWriteNames of stream settings the
\* model keeps no register for; any LJMError propagates.
CcWrite ==
    /\ pc \in {"cc_t4", "cc_trig", "cc_clk", "cc_batch"}
    /\ \E o \in WriteOutcomes :
          IF o = "ok"
          THEN pc' = CcNext(pc) /\ UNCHANGED <<stack, exc, pending>>
          ELSE Raise("LJMError")
    /\ UNCHANGED <<dev, handle, ctl, args, cam, ld, rd, now, hist>>

\* lines 286-292: what _write_optional_register does with the outcome of its
\* write: TRUE when it returns normally, FALSE when it re-raises.
OptionalWriteReturns(o) ==
    o = "ok" \/ o = "illegal"

\* lines 113 and 278-280: _write_optional_register("DIO_ANALOG_ENABLE", 0) and
\* _configure_fio0_direction
CcOptionalWrite ==
    /\ pc \in {"cc_dio", "cc_dir"}
    /\ \E o \in OptionalOutcomes(dev) :
          /\ IF OptionalWriteReturns(o)
             THEN /\ pc' = IF pc = "cc_dio" THEN "cc_batch" ELSE "cc_dac"
                  /\ UNCHANGED <<stack, exc, pending>>
             ELSE Raise("LJMError")
          /\ hist' = OptionalWritten(hist, IF pc = "cc_dio" THEN "DIO_ANALOG_ENABLE"
                                                           ELSE "FIO_DIRECTION", o)
    /\ UNCHANGED <<dev, handle, ctl, args, cam, ld, rd, now>>

\* line 123: ljm.eWriteName(handle, LED_DAC_CHANNEL, LED_IDLE_V)
CcDacIdle ==
    /\ pc = "cc_dac"
    /\ \E o \in WriteOutcomes :
          IF o = "ok"
          THEN /\ dev' = DevWrite(dev, "DAC0", 0, LED_IDLE_MV)
               /\ pc' = "cc_fio"
               /\ UNCHANGED <<stack, exc, pending>>
          ELSE /\ Raise("LJMError")
               /\ UNCHANGED dev
    /\ UNCHANGED <<handle, ctl, args, cam, ld, rd, now, hist>>

\* a port word without the inhibit mask
Fio0WordNoMask(high) ==
    IF high THEN 1 ELSE 0

\* lines 282-284: the port word _set_fio0_state writes
Fio0Word(high) ==
    FIO0_MASK_ALLOW * 256 + (IF high THEN 1 ELSE 0)

\* lines 125-126 and 92: _set_fio0_state(False), then the scan list is emptied
\* and _num_inputs set; __init__ returns to run_pulsed_stream (line 313).
CcFioLow ==
    /\ pc = "cc_fio"
    /\ \E o \in OptionalOutcomes(dev) :
          /\ IF OptionalWriteReturns(o)
             THEN /\ dev' = IF o = "ok"
                            THEN DevWrite(dev, "FIO_STATE", 0, Fio0Word(FALSE))
                            ELSE dev
                  /\ ctl' = [ctl EXCEPT !.scan_list = <<>>, !.num_inputs = Len(InputNames)]
                  /\ pc' = "prep"
                  /\ UNCHANGED <<stack, exc, pending>>
             ELSE /\ Raise("LJMError")
                  /\ UNCHANGED <<dev, ctl>>
          /\ hist' = OptionalWritten([hist EXCEPT !.word = Fio0Word(FALSE)], "FIO_STATE", o)
    /\ UNCHANGED <<handle, args, cam, ld, rd, now>>

(* ------------------------------------------------------------------ *)
(* prepare_ttl_waveform                                                  *)
(* ------------------------------------------------------------------ *)
\* line 154: max(1, int(round(STREAM_SCAN_RATE_HZ / max(rate_hz, 0.1))))
SamplesPerPeriod(rate_mhz) ==
    Max(1, RoundHalfEven(STREAM_SCAN_RATE_HZ * 1000, Max(rate_mhz, MIN_RATE_MHZ)))

\* a high time that is not clamped to the period
HighSamplesUnclamped(width_us, rate_mhz) ==
    Max(1, RoundHalfEven(width_us * STREAM_SCAN_RATE_HZ, 1000000))

\* lines 155-156: max(1, int(round(pulse_width_s * STREAM_SCAN_RATE_HZ))), at most one period
HighSamples(width_us, rate_mhz) ==
    Min(Max(1, RoundHalfEven(width_us * STREAM_SCAN_RATE_HZ, 1000000)),
        SamplesPerPeriod(rate_mhz))

\* lines 158-162: high words, then low words
TtlWaveform(rate_mhz, width_us) ==
    SConcat(Repeat(HighWord, HighSamples(width_us, rate_mhz)),
            Repeat(LowWord, SamplesPerPeriod(rate_mhz) - HighSamples(width_us, rate_mhz)))

\* line 166: num_pulses / max(rate_hz, 0.1), in microseconds
TtlDurationUs(num_pulses, rate_mhz) ==
    LET d == Max(rate_mhz, MIN_RATE_MHZ)
        q == 1000000000 \div d
        m == 1000000000 % d
    IN  num_pulses * q + (num_pulses * m) \div d

\* lines 146-166: the controller after prepare_ttl_waveform(num_pulses, rate, width)
PrepareTtl(c, num_pulses, rate_mhz, width_us) ==
    IF num_pulses <= 0
    THEN [c EXCEPT !.ttl_waveform = <<>>, !.ttl_duration = 0, !.ttl_num_pulses = 0]
    ELSE [c EXCEPT !.ttl_waveform = TtlWaveform(rate_mhz, width_us),
                   !.ttl_duration = TtlDurationUs(num_pulses, rate_mhz),
                   !.ttl_num_pulses = num_pulses]

\* line 313: controller.prepare_ttl_waveform(num_frames, trigger_rate_hz, pulse_width_s)
PrepareTtlWaveform ==
    /\ pc = "prep"
    /\ ctl' = PrepareTtl(ctl, args.num_frames, args.rate_mhz, args.width_us)
    /\ Call("st_begin", "run_open")
    /\ UNCHANGED <<dev, handle, args, cam, pending, exc, ld, rd, now, hist>>

(* ------------------------------------------------------------------ *)
(* _configure_stream_out: the stream-out buffer loader                   *)
(* ------------------------------------------------------------------ *)
\* the locals of a call _configure_stream_out(index, target_name, waveform, loop=True, value_type)
LoadOf(index, target, waveform, vtype) ==
    [index |-> index, target |-> target, waveform |-> waveform, vtype |-> vtype,
     i |-> 0, attempt |-> 0]

\* history: the loop size the channel holds from an earlier completed load, as a
\* load of it begins (-1: none)
LoadBegins(h, index) ==
    [h EXCEPT !.fails = 0,
              !.prev_len = IF dev.out[index].set_loop = 1
                           THEN dev.out[index].loop_size ELSE -1]

\* a loop size that never shrinks below the one the channel holds
LoopSizeKeepsLonger(waveform) ==
    Max(SLen(waveform), dev.out[ld.index].loop_size)

\* line 200: the value written to LOOP_SIZE
LoopSizeFor(waveform) ==
    SLen(waveform)

\* lines 194-200 and 214: the register each header statement writes, and its value
SoRegister(p) ==
    CASE p = "so_dis" -> "ENABLE"
      [] p = "so_target" -> "TARGET"
      [] p = "so_size" -> "BUFFER_SIZE"
      [] p = "so_en" -> "ENABLE"
      [] p = "so_loopsize" -> "LOOP_SIZE"
      [] p = "so_setloop" -> "SET_LOOP"

SoValue(p, l) ==
    CASE p = "so_dis" -> 0
      [] p = "so_target" -> NameToAddress(l.target)
      [] p = "so_size" -> BufferSizeFor(SLen(l.waveform))
      [] p = "so_en" -> 1
      [] p = "so_loopsize" -> LoopSizeFor(l.waveform)
      [] p = "so_setloop" -> 1

\* the statement after each header write (the for loop of line 203 is skipped
\* when the waveform is empty)
SoNext(p, l) ==
    CASE p = "so_dis" -> "so_target"
      [] p = "so_target" -> "so_size"
      [] p = "so_size" -> "so_en"
      [] p = "so_en" -> "so_loopsize"
      [] p = "so_loopsize" -> IF l.waveform = <<>> THEN "so_setloop" ELSE "so_buf"

\* lines 194, 197-200: ENABLE 0, TARGET, BUFFER_SIZE, ENABLE 1, LOOP_SIZE; an
\* LJMError of any of them propagates.
SoHeaderWrite ==
    /\ pc \in {"so_dis", "so_target", "so_size", "so_en", "so_loopsize"}
    /\ \E o \in WriteOutcomes :
          IF o = "ok"
          THEN /\ dev' = DevWrite(dev, SoRegister(pc), ld.index, SoValue(pc, ld))
               /\ pc' = SoNext(pc, ld)
               /\ UNCHANGED <<stack, exc, pending>>
          ELSE /\ Raise("LJMError")
               /\ UNCHANGED dev
    /\ ld' = [ld EXCEPT !.i = 1, !.attempt = 0]
    /\ UNCHANGED <<handle, ctl, args, cam, rd, now, hist>>

\* a test for the last attempt that no attempt of range(3) meets
LastAttemptNever(attempt) ==
    attempt = WRITE_ATTEMPTS

\* line 209: `if attempt == 2: raise`
LastAttempt(attempt) ==
    attempt = WRITE_ATTEMPTS - 1

\* lines 203-211: one eWriteName of the sample loop.  Success breaks to the next
\* sample; an LJMError re-raises on the last attempt and retries otherwise
\* (range(3) running out would move on to the next sample).
SoBufferWrite ==
    /\ pc = "so_buf"
    /\ \E o \in WriteOutcomes :
          IF o = "ok"
          THEN /\ dev' = DevWrite(dev, "BUFFER", ld.index, SNth(ld.waveform, ld.i))
               /\ ld' = [ld EXCEPT !.i = @ + 1, !.attempt = 0]
               /\ pc' = IF ld.i = SLen(ld.waveform) THEN "so_setloop" ELSE "so_buf"
               /\ hist' = [hist EXCEPT !.fails = 0]
               /\ UNCHANGED <<stack, exc, pending>>
          ELSE /\ hist' = [hist EXCEPT !.fails = @ + 1]
               /\ UNCHANGED dev
               /\ IF LastAttempt(ld.attempt)
                  THEN Raise("LJMError") /\ UNCHANGED ld
                  ELSE IF ld.attempt + 1 < WRITE_ATTEMPTS
                  THEN /\ ld' = [ld EXCEPT !.attempt = @ + 1]
                       /\ UNCHANGED <<pc, stack, exc, pending>>
                  ELSE /\ ld' = [ld EXCEPT !.i = @ + 1, !.attempt = 0]
                       /\ pc' = IF ld.i = SLen(ld.waveform) THEN "so_setloop" ELSE "so_buf"
                       /\ UNCHANGED <<stack, exc, pending>>
    /\ UNCHANGED <<handle, ctl, args, cam, rd, now>>

\* lines 213-214: loop is True at both call sites: SET_LOOP 1
SoSetLoop ==
    /\ pc = "so_setloop"
    /\ \E o \in WriteOutcomes :
          IF o = "ok"
          THEN /\ dev' = DevWrite(dev, SoRegister(pc), ld.index, SoValue(pc, ld))
               /\ pc' = "so_done"
               /\ UNCHANGED <<stack, exc, pending>>
          ELSE /\ Raise("LJMError")
               /\ UNCHANGED dev
    /\ UNCHANGED <<handle, ctl, args, cam, ld, rd, now, hist>>

\* _configure_stream_out returns; its locals are gone
SoReturn ==
    /\ pc = "so_done"
    /\ ld' = NoLoad
    /\ hist' = [hist EXCEPT !.fails = 0, !.prev_len = -1]
    /\ Return
    /\ UNCHANGED <<dev, handle, ctl, args, cam, pending, exc, rd, now>>

(* ------------------------------------------------------------------ *)
(* configure_led_stream_out, configure_ttl_stream_out, start_stream      *)
(* ------------------------------------------------------------------ *)
\* a sample count rounded to the nearest integer instead of truncated
LedSamplesPerPeriodRounded ==
    RoundHalfEven(1000 * args.scan_rate_hz, args.led_frequency_mhz)

\* line 134: int(STREAM_SCAN_RATE_HZ / LED_FREQUENCY_HZ), the frequency in
\* millihertz
LedSamplesPerPeriod ==
    (1000 * args.scan_rate_hz) \div args.led_frequency_mhz

\* lines 129-144: ValueError below two samples per period; else the sine is
\* handed to _configure_stream_out, whose return is that of this method.
ConfigureLedStreamOut ==
    /\ pc = "led_begin"
    /\ IF LedSamplesPerPeriod < 2
       THEN Raise("ValueError") /\ UNCHANGED ld
       ELSE /\ ld' = LoadOf(STREAM_OUT_INDEX, "DAC0",
                            SineWaveform(LedSamplesPerPeriod, LedSamplesPerPeriod), "f32")
            /\ pc' = "so_dis"
            /\ UNCHANGED <<stack, exc, pending>>
    /\ hist' = LoadBegins(hist, STREAM_OUT_INDEX)
    /\ UNCHANGED <<dev, handle, ctl, args, cam, rd, now>>

\* lines 168-178: nothing without a prepared waveform
ConfigureTtlStreamOut ==
    /\ pc = "ttl_begin"
    /\ IF ctl.ttl_waveform = <<>>
       THEN Return /\ UNCHANGED ld
       ELSE /\ ld' = LoadOf(TTL_STREAM_OUT_INDEX, "FIO_STATE", ctl.ttl_waveform, "u16")
            /\ pc' = "so_dis"
            /\ UNCHANGED stack
    /\ hist' = LoadBegins(hist, TTL_STREAM_OUT_INDEX)
    /\ UNCHANGED <<dev, handle, ctl, args, cam, pending, exc, rd, now>>

\* a build_scan_list that puts the stream-outs first
build_scan_list_outs_first(input_names, enabled_stream_outs) ==
    enabled_stream_outs \o input_names

\* lines 59-62: StreamConfig.build_scan_list
build_scan_list(input_names, enabled_stream_outs) ==
    input_names \o enabled_stream_outs

\* a start_stream that puts the TTL stream-out on every scan list
EnabledStreamsAlwaysTtl(c) ==
    <<StreamOutName(STREAM_OUT_INDEX), StreamOutName(TTL_STREAM_OUT_INDEX)>>

\* lines 219-221: the stream-outs start_stream puts on the scan list
EnabledStreams(c) ==
    IF c.ttl_waveform # <<>>
    THEN <<StreamOutName(STREAM_OUT_INDEX), StreamOutName(TTL_STREAM_OUT_INDEX)>>
    ELSE <<StreamOutName(STREAM_OUT_INDEX)>>

\* lines 219-227: the scan list, then configure_led_stream_out()
StartStreamBegin ==
    /\ pc = "st_begin"
    /\ ctl' = [ctl EXCEPT !.scan_list = build_scan_list(args.input_names, EnabledStreams(ctl)),
                          !.num_inputs = Len(InputNames)]
    /\ Call("led_begin", "st_ttl")
    /\ UNCHANGED <<dev, handle, args, cam, pending, exc, ld, rd, now, hist>>

\* lines 228-229: configure_ttl_stream_out() when a TTL waveform is prepared
StartStreamTtl ==
    /\ pc = "st_ttl"
    /\ IF ctl.ttl_waveform # <<>>
       THEN Call("ttl_begin", "st_start")
       ELSE pc' = "st_start" /\ UNCHANGED stack
    /\ UNCHANGED <<dev, handle, ctl, args, cam, pending, exc, ld, rd, now, hist>>

\* lines 231-238: eStreamStart; the rate it reports becomes _actual_scan_rate.
\* The device refuses a start while a scan loop is running.
StartStreamStart ==
    /\ pc = "st_start"
    /\ \E ok \in BOOLEAN, r \in ActualRates :
          IF ok /\ ~dev.streaming
          THEN /\ dev' = DevStreamStart(dev, ctl.scan_list)
               /\ ctl' = [ctl EXCEPT !.actual_rate = r]
               /\ hist' = PulsesAt([hist EXCEPT !.reported_rate = r], dev',
                                   ctl.scan_list, r, now)
               /\ Return
               /\ UNCHANGED <<exc, pending>>
          ELSE /\ Raise("LJMError")
               /\ UNCHANGED <<dev, ctl, hist>>
    /\ UNCHANGED <<handle, args, cam, ld, rd, now>>

(* ------------------------------------------------------------------ *)
(* stop_stream, disable_ttl_stream, close                                *)
(* ------------------------------------------------------------------ *)
\* stop_stream halting the scan loop before it tears the TTL playback down
StopStreamOrderHaltFirst ==
    <<"ss_stop", "ss_ttl", "ss_out0", "ss_dac">>

\* lines 254-258: the statements of stop_stream, in order
StopStreamOrder ==
    <<"ss_ttl", "ss_stop", "ss_out0", "ss_dac">>

\* the statement after p in stop_stream ("ss_end": the method returns)
SsAfter(p) ==
    LET k == CHOOSE j \in 1..Len(StopStreamOrder) : StopStreamOrder[j] = p
    IN  IF k = Len(StopStreamOrder) THEN "ss_end" ELSE StopStreamOrder[k + 1]

\* the statements of stop_stream
SsLabels ==
    {"ss_begin", "ss_ttl", "ss_stop", "ss_out0", "ss_dac", "ss_end"}

\* a call of stop_stream is in progress
InStopStream ==
    pc \in SsLabels \/ \E k \in 1..Len(stack) : stack[k] \in SsLabels

\* history: the hardware calls the stop_stream in progress has issued, and the
\* one that raised out of it
Issued(h, op) ==
    IF InStopStream THEN [h EXCEPT !.ops = Append(@, op)] ELSE h

IssuedAndRaised(h, op) ==
    IF InStopStream /\ ~InStopStream'
    THEN [h EXCEPT !.ops = Append(@, op), !.ss_raised = op]
    ELSE Issued(h, op)

\* stop_stream is entered
StopStreamBegin ==
    /\ pc = "ss_begin"
    /\ pc' = StopStreamOrder[1]
    /\ hist' = [hist EXCEPT !.ops = <<>>, !.ss_calls = @ + 1, !.ss_entry = dev,
                            !.ss_raised = "none"]
    /\ UNCHANGED <<dev, handle, ctl, args, cam, stack, pending, exc, ld, rd, now>>

\* line 254: self.disable_ttl_stream()
StopStreamTtl ==
    /\ pc = "ss_ttl"
    /\ Call("dt_en", SsAfter("ss_ttl"))
    /\ UNCHANGED <<dev, handle, ctl, args, cam, pending, exc, ld, rd, now, hist>>

\* line 255: ljm.eStreamStop(self.handle), unguarded.  With no scan loop running
\* the device may report that nothing was running, which LJM raises as LJMError.
StopStreamStop ==
    /\ pc = "ss_stop"
    /\ \E o \in StopOutcomes(dev) :
          IF o = "ok"
          THEN /\ dev' = DevStreamStop(dev)
               /\ pc' = SsAfter("ss_stop")
               /\ hist' = Issued(hist, "STREAM_STOP")
               /\ UNCHANGED <<stack, exc, pending>>
          ELSE /\ Raise("LJMError")
               /\ hist' = IssuedAndRaised(Unwound(hist, "STREAM_STOP", o), "STREAM_STOP")
               /\ UNCHANGED dev
    /\ UNCHANGED <<handle, ctl, args, cam, ld, rd, now>>

\* lines 256-257: STREAM_OUT0_ENABLE = 0
StopStreamDisableOut0 ==
    /\ pc = "ss_out0"
    /\ \E o \in WriteOutcomes :
          IF o = "ok"
          THEN /\ dev' = DevWrite(dev, "ENABLE", STREAM_OUT_INDEX, 0)
               /\ pc' = SsAfter("ss_out0")
               /\ hist' = Issued(hist, "STREAM_OUT0_ENABLE")
               /\ UNCHANGED <<stack, exc, pending>>
          ELSE /\ Raise("LJMError")
               /\ hist' = IssuedAndRaised(Unwound(hist, "STREAM_OUT0_ENABLE", o),
                                          "STREAM_OUT0_ENABLE")
               /\ UNCHANGED dev
    /\ UNCHANGED <<handle, ctl, args, cam, ld, rd, now>>

\* line 258: DAC0 back to LED_IDLE_V
StopStreamDacIdle ==
    /\ pc = "ss_dac"
    /\ \E o \in WriteOutcomes :
          IF o = "ok"
          THEN /\ dev' = DevWrite(dev, "DAC0", 0, LED_IDLE_MV)
               /\ pc' = SsAfter("ss_dac")
               /\ hist' = Issued(hist, "DAC0")
               /\ UNCHANGED <<stack, exc, pending>>
          ELSE /\ Raise("LJMError")
               /\ hist' = IssuedAndRaised(Unwound(hist, "DAC0", o), "DAC0")
               /\ UNCHANGED dev
    /\ UNCHANGED <<handle, ctl, args, cam, ld, rd, now>>

\* stop_stream returns
StopStreamEnd ==
    /\ pc = "ss_end"
    /\ Return
    /\ UNCHANGED <<dev, handle, ctl, args, cam, pending, exc, ld, rd, now, hist>>

\* lines 270-273: STREAM_OUT1_ENABLE = 0 inside try / except LJMError: pass
DisableTtlEnable ==
    /\ pc = "dt_en"
    /\ \E o \in WriteOutcomes :
          IF o = "ok"
          THEN /\ dev' = DevWrite(dev, "ENABLE", TTL_STREAM_OUT_INDEX, 0)
               /\ hist' = Issued(hist, "STREAM_OUT1_ENABLE")
          ELSE /\ dev' = dev
               /\ hist' = Issued(Swallowed(hist, "STREAM_OUT1_ENABLE", o,
                                            "disable_ttl_stream"),
                                  "STREAM_OUT1_ENABLE")
    /\ pc' = "dt_fio"
    /\ UNCHANGED <<handle, ctl, args, cam, stack, pending, exc, ld, rd, now>>

\* lines 274-276: _set_fio0_state(False), then the TTL waveform is forgotten
DisableTtlFioLow ==
    /\ pc = "dt_fio"
    /\ \E o \in OptionalOutcomes(dev) :
          IF OptionalWriteReturns(o)
          THEN /\ dev' = IF o = "ok"
                         THEN DevWrite(dev, "FIO_STATE", 0, Fio0Word(FALSE))
                         ELSE dev
               /\ ctl' = [ctl EXCEPT !.ttl_waveform = <<>>, !.ttl_duration = 0]
               /\ hist' = Issued(OptionalWritten([hist EXCEPT !.word = Fio0Word(FALSE)],
                                                 "FIO_STATE", o),
                                 "FIO_STATE")
               /\ Return
               /\ UNCHANGED <<exc, pending>>
          ELSE /\ Raise("LJMError")
               /\ hist' = IssuedAndRaised(OptionalWritten([hist EXCEPT !.word = Fio0Word(FALSE)],
                                                          "FIO_STATE", o),
                                          "FIO_STATE")
               /\ UNCHANGED <<dev, ctl>>
    /\ UNCHANGED <<handle, args, cam, ld, rd, now>>

\* lines 296-299: stop_stream() inside try / except LJMError: pass
CloseStop ==
    /\ pc = "cl_stop"
    /\ Call("ss_begin", "cl_close")
    /\ UNCHANGED <<dev, handle, ctl, args, cam, pending, exc, ld, rd, now, hist>>

\* line 300: ljm.close(self.handle)
CloseHandle ==
    /\ pc = "cl_close"
    /\ handle' = "closed"
    /\ Return
    /\ UNCHANGED <<dev, ctl, args, cam, pending, exc, ld, rd, now, hist>>

(* ------------------------------------------------------------------ *)
(* run_pulsed_stream                                                     *)
(* ------------------------------------------------------------------ *)
\* the sample period computed from the requested scan rate
SamplePeriodRequested(rate) ==
    <<1, STREAM_SCAN_RATE_HZ>>

\* line 329: 1.0 / _actual_scan_rate, as the fraction <<numerator, denominator>>
SamplePeriod(rate) ==
    IF rate # 0 THEN <<1, rate>> ELSE <<0, 1>>

\* lines 316-329 and 346: the CSV file is opened when a log path is given (an
\* OSError leaves run_pulsed_stream: the try block is not entered yet), the
\* locals are set, and the try block computes ttl_end_time.
RunOpenLog ==
    /\ pc = "run_open"
    /\ \E opened \in BOOLEAN :
          IF opened \/ ~args.log
          THEN /\ rd' = [rd EXCEPT !.csv_open = args.log,
                                   !.sample_index = 0,
                                   !.sample_period = SamplePeriod(ctl.actual_rate),
                                   !.ttl_end_time = now + ctl.ttl_duration]
               /\ pc' = "loop1"
               /\ UNCHANGED <<stack, exc, pending>>
          ELSE /\ Raise("OSError")
               /\ UNCHANGED rd
    /\ UNCHANGED <<dev, handle, ctl, args, cam, ld, now, hist>>

\* lines 347 and 352: the deadline the loop at p tests
Deadline(p) ==
    IF p = "loop1" THEN rd.ttl_end_time ELSE rd.end_time

\* a log_chunk that does not trim the chunk
ScansLoggedUntrimmed(n) ==
    n \div Len(InputNames)

\* lines 336-337: the scans log_chunk writes for a chunk of n values
ScansLogged(n) ==
    Min(n, SCANS_PER_READ * Len(InputNames)) \div Len(InputNames)

\* lines 347-349 and 352-354: before the deadline, read_stream_chunk (line 248:
\* a blocking eStreamRead, whose backlog figures are dropped) and log_chunk.
\* log_chunk returns at once without a writer or data (line 333); an LJMError
\* of the read enters the finally block.
ReadChunk ==
    /\ pc \in {"loop1", "loop2"}
    /\ now < Deadline(pc)
    /\ \E ok \in BOOLEAN, dt \in ReadTimesUs, n \in DataLens, b \in 0..MaxBacklog :
          IF ok
          THEN /\ now' = now + dt
               /\ dev' = DevAdvance(dev, ctl.scan_list, ctl.actual_rate, now + dt)
               /\ hist' = PulsesAt([hist EXCEPT !.over = @ \/ b > BacklogThreshold],
                                   dev, ctl.scan_list, ctl.actual_rate, now + dt)
               /\ IF rd.csv_open /\ n > 0 /\ ScansLogged(n) > 0
                  THEN /\ rd' = [rd EXCEPT !.data_len = n, !.scans = ScansLogged(n),
                                           !.scan = 0]
                       /\ Call("log_row", pc)
                  ELSE UNCHANGED <<rd, pc, stack>>
               /\ UNCHANGED pending
          ELSE /\ pending' = "LJMError"
               /\ pc' = "fin_csv"
               /\ UNCHANGED <<now, dev, rd, stack, hist>>
    /\ UNCHANGED <<handle, ctl, args, cam, exc, ld>>

\* the value eStreamRead put at position k (from 0) of its flat list: input
\* k mod 3 of scan k div 3 of the chunk
DeviceValue(k) ==
    <<k \div Len(InputNames), InputNames[(k % Len(InputNames)) + 1]>>

\* lines 339-342: the row log_chunk writes for scan `scan` of the chunk
LogRow(sample_index, sample_period, scan, num_inputs) ==
    [index |-> sample_index,
     time |-> <<sample_index * sample_period[1], sample_period[2]>>,
     values |-> [ch \in 1..num_inputs |-> DeviceValue(scan * num_inputs + (ch - 1))]]

\* lines 338-343: one iteration of the row loop of log_chunk; after the last
\* one log_chunk returns and its locals are gone
LogChunkRow ==
    /\ pc = "log_row"
    /\ IF rd.scan + 1 = rd.scans
       THEN /\ rd' = [rd EXCEPT
                       !.last_row = LogRow(rd.sample_index, rd.sample_period, rd.scan,
                                           Len(InputNames)),
                       !.sample_index = @ + 1,
                       !.data_len = 0, !.scans = 0, !.scan = 0]
            /\ Return
       ELSE /\ rd' = [rd EXCEPT
                       !.last_row = LogRow(rd.sample_index, rd.sample_period, rd.scan,
                                           Len(InputNames)),
                       !.sample_index = @ + 1,
                       !.scan = @ + 1]
            /\ UNCHANGED <<pc, stack>>
    /\ UNCHANGED <<dev, handle, ctl, args, cam, pending, exc, ld, now, hist>>

\* lines 347, 351: the TTL deadline has passed; the padding deadline is set
DrainPadding ==
    /\ pc = "loop1"
    /\ ~(now < rd.ttl_end_time)
    /\ rd' = [rd EXCEPT !.end_time = now + POST_RUN_PADDING_US]
    /\ pc' = "loop2"
    /\ UNCHANGED <<dev, handle, ctl, args, cam, stack, pending, exc, ld, now, hist>>

\* line 352: the padding deadline has passed; the try block ends
DrainEnd ==
    /\ pc = "loop2"
    /\ ~(now < rd.end_time)
    /\ pc' = "fin_csv"
    /\ UNCHANGED <<dev, handle, ctl, args, cam, stack, pending, exc, ld, rd, now, hist>>

\* lines 355-358: finally: the CSV file is closed, then controller.stop_stream()
FinallyStop ==
    /\ pc = "fin_csv"
    /\ rd' = [rd EXCEPT !.csv_open = FALSE]
    /\ Call("ss_begin", "fin_disable")
    /\ UNCHANGED <<dev, handle, ctl, args, cam, pending, exc, ld, now, hist>>

\* line 359: controller.disable_ttl_stream()
FinallyDisableTtl ==
    /\ pc = "fin_disable"
    /\ Call("dt_en", "fin_close")
    /\ UNCHANGED <<dev, handle, ctl, args, cam, pending, exc, ld, rd, now, hist>>

\* line 360: controller.close()
FinallyClose ==
    /\ pc = "fin_close"
    /\ Call("cl_stop", "fin_end")
    /\ UNCHANGED <<dev, handle, ctl, args, cam, pending, exc, ld, rd, now, hist>>

\* the finally block is over: the pending exception is re-raised, or the run returns
FinallyEnd ==
    /\ pc = "fin_end"
    /\ pc' = IF pending # "none" THEN "raised" ELSE "done"
    /\ exc' = pending
    /\ pending' = "none"
    /\ UNCHANGED <<dev, handle, ctl, args, cam, stack, ld, rd, now, hist>>

(* ------------------------------------------------------------------ *)
(* The program: one run of run_pulsed_stream                             *)
(* ------------------------------------------------------------------ *)
Next ==
    \/ Construct
    \/ CcStreamStop
    \/ CcWrite
    \/ CcOptionalWrite
    \/ CcDacIdle
    \/ CcFioLow
    \/ PrepareTtlWaveform
    \/ StartStreamBegin
    \/ ConfigureLedStreamOut
    \/ StartStreamTtl
    \/ ConfigureTtlStreamOut
    \/ SoHeaderWrite
    \/ SoBufferWrite
    \/ SoSetLoop
    \/ SoReturn
    \/ StartStreamStart
    \/ RunOpenLog
    \/ ReadChunk
    \/ LogChunkRow
    \/ DrainPadding
    \/ DrainEnd
    \/ FinallyStop
    \/ FinallyDisableTtl
    \/ FinallyClose
    \/ FinallyEnd
    \/ StopStreamBegin
    \/ StopStreamTtl
    \/ StopStreamStop
    \/ StopStreamDisableOut0
    \/ StopStreamDacIdle
    \/ StopStreamEnd
    \/ DisableTtlEnable
    \/ DisableTtlFioLow
    \/ CloseStop
    \/ CloseHandle

Spec == Init /\ [][Next]_vars


(* ------------------------------------------------------------------ *)
(* The loader under repeated use: a caller that holds a constructed      *)
(* controller prepares TTL waveforms and loads the two stream-out        *)
(* channels again and again, as successive runs against one device do.   *)
(* An exception of a load ends it.                                       *)
(* ------------------------------------------------------------------ *)
\* trigger rates (millihertz) whose waveforms have 2, 513, 4098 and 8197 samples
LoadRates == {1600000, 7797, 976, 488}

\* pulse counts given to prepare_ttl_waveform
LoadPulses == {0, 1}

InitLoad ==
    /\ dev = [streaming |-> FALSE, out |-> [i \in 0..1 |-> IdleChannel],
              dac0 |-> LED_IDLE_MV, fio |-> 0, scan0 |-> 0, has_optional |-> TRUE]
    /\ handle = "open"
    /\ ctl = [InitCtl EXCEPT !.num_inputs = Len(InputNames)]
    /\ args \in {a \in InitArgs : a.num_frames = 0 /\ a.rate_mhz = 30000 /\ ~a.log}
    /\ pc = "api"
    /\ stack = <<>>
    /\ pending = "none"
    /\ exc = "none"
    /\ ld = NoLoad
    /\ rd = InitRun
    /\ now = 0
    /\ hist = HistAt(dev)
    /\ cam = NoCamera

\* controller.prepare_ttl_waveform(n, r, w)
ApiPrepareTtl ==
    /\ pc = "api"
    /\ \E n \in LoadPulses, r \in LoadRates, w \in PulseWidths :
          ctl' = PrepareTtl(ctl, n, r, w)
    /\ UNCHANGED <<dev, handle, args, cam, pc, stack, pending, exc, ld, rd, now, hist>>

\* controller.configure_led_stream_out()
ApiConfigureLed ==
    /\ pc = "api"
    /\ Call("led_begin", "api")
    /\ UNCHANGED <<dev, handle, ctl, args, cam, pending, exc, ld, rd, now, hist>>

\* controller.configure_ttl_stream_out()
ApiConfigureTtl ==
    /\ pc = "api"
    /\ Call("ttl_begin", "api")
    /\ UNCHANGED <<dev, handle, ctl, args, cam, pending, exc, ld, rd, now, hist>>

NextLoad ==
    \/ ApiPrepareTtl
    \/ ApiConfigureLed
    \/ ApiConfigureTtl
    \/ ConfigureLedStreamOut
    \/ ConfigureTtlStreamOut
    \/ SoHeaderWrite
    \/ SoBufferWrite
    \/ SoSetLoop
    \/ SoReturn

SpecLoad == InitLoad /\ [][NextLoad]_vars

(* ================================================================== *)
(* configure_led_stream_out over scan rates and LED frequencies          *)
(* ================================================================== *)
\* values of STREAM_SCAN_RATE_HZ (line 27), in hertz
SineScanRates == {STREAM_SCAN_RATE_HZ, 1000}

\* values of LED_FREQUENCY_HZ (line 29), in millihertz: with 4000 Hz the
\* ratios 16, 14.81, 2.67, 2, 1.90, 1.33 and 0.8
SineFrequencies ==
    {1000 * LED_FREQUENCY_HZ, 270000, 1500000, 2000000, 2100000, 3000000, 5000000}

\* an open controller whose module was configured with one of the rates and
\* frequencies
InitSine ==
    /\ dev = [streaming |-> FALSE, out |-> [i \in 0..1 |-> IdleChannel],
              dac0 |-> LED_IDLE_MV, fio |-> 0, scan0 |-> 0, has_optional |-> TRUE]
    /\ handle = "open"
    /\ ctl = [InitCtl EXCEPT !.num_inputs = Len(InputNames)]
    /\ args \in { [num_frames |-> 0, rate_mhz |-> 30000,
                    width_us |-> START_PULSE_WIDTH_US, log |-> FALSE,
                    scan_rate_hz |-> r, led_frequency_mhz |-> f,
                    input_names |-> InputNames] :
                    r \in SineScanRates, f \in SineFrequencies }
    /\ pc = "api"
    /\ stack = <<>>
    /\ pending = "none"
    /\ exc = "none"
    /\ ld = NoLoad
    /\ rd = InitRun
    /\ now = 0
    /\ hist = HistAt(dev)
    /\ cam = NoCamera

NextSine ==
    \/ ApiConfigureLed
    \/ ConfigureLedStreamOut
    \/ SoHeaderWrite
    \/ SoBufferWrite
    \/ SoSetLoop
    \/ SoReturn

SpecSine == InitSine /\ [][NextSine]_vars


(* ================================================================== *)
(* The FIO port: _set_fio0_state, fire_camera_start_pulse, TTL playback  *)
(* ================================================================== *)
\* lines 192-214: the stream-out channel after a complete load on a channel
\* never loaded before
LoadedAlone(l) ==
    [enable |-> 1, target |-> NameToAddress(l.target),
     buffer_size |-> BufferSizeFor(SLen(l.waveform)),
     loop_size |-> SLen(l.waveform), buffer |-> l.waveform, set_loop |-> 1]

\* the harness makes no further call once this much time has passed
MaxPortTimeUs == 34000

\* the time the harness lets pass between two calls: about half a period of
\* the default 30 Hz pulse train
PortWaitUs == 17000

\* lines 282-284: one _set_fio0_state(high) at statement p, going on to
\* statement q.  History: the one-shot pulse of fire_camera_start_pulse is out
\* when its closing write (statement "fp_low") is done.
SetFio0State(p, high, q) ==
    /\ pc = p
    /\ \E o \in OptionalOutcomes(dev) :
          IF OptionalWriteReturns(o)
          THEN /\ dev' = IF o = "ok"
                         THEN DevWrite(dev, "FIO_STATE", 0, Fio0Word(high))
                         ELSE dev
               /\ IF q = "return" THEN Return ELSE pc' = q /\ UNCHANGED stack
               /\ hist' = OptionalWritten(
                              [hist EXCEPT !.word = Fio0Word(high),
                                           !.start_pulse = @ \/ (p = "fp_low" /\ o = "ok")],
                              "FIO_STATE", o)
               /\ UNCHANGED <<exc, pending>>
          ELSE /\ Raise("LJMError")
               /\ hist' = OptionalWritten([hist EXCEPT !.word = Fio0Word(high)],
                                          "FIO_STATE", o)
               /\ UNCHANGED dev
    /\ UNCHANGED <<handle, ctl, args, cam, ld, rd, now>>

\* line 263: self._set_fio0_state(True)
FirePulseHigh ==
    /\ pc = "fp_high"
    /\ SetFio0State("fp_high", TRUE, "fp_sleep")

\* line 264: time.sleep(max(0.001, width_s)) with the default width; the
\* stream engine keeps playing meanwhile
FirePulseSleep ==
    /\ pc = "fp_sleep"
    /\ now' = now + Max(1000, START_PULSE_WIDTH_US)
    /\ dev' = DevAdvance(dev, ctl.scan_list, ctl.actual_rate,
                         now + Max(1000, START_PULSE_WIDTH_US))
    /\ pc' = "fp_low"
    /\ UNCHANGED <<handle, ctl, args, cam, stack, pending, exc, ld, rd, hist>>

\* line 265: self._set_fio0_state(False)
FirePulseLow ==
    /\ pc = "fp_low"
    /\ SetFio0State("fp_low", FALSE, "return")

\* a controller whose stream is running with the LED sine and the default
\* pulse train armed, on a port in any state
InitPort ==
    /\ ctl = [PrepareTtl(InitCtl, 2, 30000, START_PULSE_WIDTH_US) EXCEPT
                !.num_inputs = Len(InputNames),
                !.scan_list = InputNames \o <<StreamOutName(0), StreamOutName(1)>>]
    /\ \E f \in 0..255 :
          dev = [streaming |-> TRUE,
                 out |-> [i \in 0..1 |->
                            IF i = 0
                            THEN LoadedAlone(LoadOf(0, "DAC0", SineWaveform(16, 16), "f32"))
                            ELSE LoadedAlone(LoadOf(1, "FIO_STATE", ctl.ttl_waveform, "u16"))],
                 dac0 |-> LED_OFFSET_MV, fio |-> f, scan0 |-> 0, has_optional |-> TRUE]
    /\ handle = "open"
    /\ args \in {a \in InitArgs : a.num_frames = 2 /\ a.rate_mhz = 30000 /\ ~a.log}
    /\ pc = "api"
    /\ stack = <<>>
    /\ pending = "none"
    /\ exc = "none"
    /\ ld = NoLoad
    /\ rd = InitRun
    /\ now = 0
    /\ hist = HistAt(dev)
    /\ cam = NoCamera

\* controller._set_fio0_state(high)
ApiSetFio0State ==
    /\ pc = "api"
    /\ \E high \in BOOLEAN : SetFio0State("api", high, "api")

\* controller.fire_camera_start_pulse()
ApiFirePulse ==
    /\ pc = "api"
    /\ now < MaxPortTimeUs
    /\ Call("fp_high", "api")
    /\ UNCHANGED <<dev, handle, ctl, args, cam, pending, exc, ld, rd, now, hist>>

\* the caller waits while the stream engine plays
ApiWait ==
    /\ pc = "api"
    /\ now < MaxPortTimeUs
    /\ now' = now + PortWaitUs
    /\ dev' = DevAdvance(dev, ctl.scan_list, ctl.actual_rate, now + PortWaitUs)
    /\ UNCHANGED <<handle, ctl, args, cam, pc, stack, pending, exc, ld, rd, hist>>

NextPort ==
    \/ ApiSetFio0State
    \/ ApiFirePulse
    \/ FirePulseHigh
    \/ FirePulseSleep
    \/ FirePulseLow
    \/ ApiWait

SpecPort == InitPort /\ [][NextPort]_vars

(* ================================================================== *)
(* prepare_ttl_waveform over pulse counts, rates and widths              *)
(* ================================================================== *)
\* num_pulses, rate_hz (millihertz) and pulse_width_s (microseconds): the
\* defaults of lines 45-47, and counts around 0 with rates below the 0.1 Hz
\* floor, at and above the scan rate, and widths that round to 0, to 2.5 -> 2
\* and to more than a period
TtlInputs ==
    {<<300, 30000, START_PULSE_WIDTH_US>>}
      \cup ({-1, 0, 1, 2} \X {50, 30000, 1600000, 4000000, 8000000}
                          \X {0, 100, 625, START_PULSE_WIDTH_US, 50000})

\* an open controller, fresh or with a pulse train prepared before, about to
\* be given one of the inputs
InitTtl ==
    /\ dev = [streaming |-> FALSE, out |-> [i \in 0..1 |-> IdleChannel],
              dac0 |-> LED_IDLE_MV, fio |-> 0, scan0 |-> 0, has_optional |-> TRUE]
    /\ handle = "open"
    /\ \E before \in {0, 2} :
          ctl = PrepareTtl([InitCtl EXCEPT !.num_inputs = Len(InputNames)],
                           before, 1600000, START_PULSE_WIDTH_US)
    /\ \E t \in TtlInputs :
          args = [num_frames |-> t[1], rate_mhz |-> t[2], width_us |-> t[3],
                  log |-> FALSE, scan_rate_hz |-> STREAM_SCAN_RATE_HZ,
                  led_frequency_mhz |-> 1000 * LED_FREQUENCY_HZ,
                  input_names |-> InputNames]
    /\ pc = "api"
    /\ stack = <<>>
    /\ pending = "none"
    /\ exc = "none"
    /\ ld = NoLoad
    /\ rd = InitRun
    /\ now = 0
    /\ hist = HistAt(dev)
    /\ cam = NoCamera

\* controller.prepare_ttl_waveform(num_pulses, rate_hz, pulse_width_s)
ApiPrepareTtlArgs ==
    /\ pc = "api"
    /\ ctl' = PrepareTtl(ctl, args.num_frames, args.rate_mhz, args.width_us)
    /\ pc' = "prepared"
    /\ UNCHANGED <<dev, handle, args, cam, stack, pending, exc, ld, rd, now, hist>>

NextTtl ==
    ApiPrepareTtlArgs

SpecTtl == InitTtl /\ [][NextTtl]_vars

(* ================================================================== *)
(* StreamConfig.build_scan_list over input and stream-out name lists      *)
(* ================================================================== *)
MaxScanInputs == 3
MaxScanOuts == 2

\* values of StreamConfig.input_names (line 56): lists of analog input names
ScanInputs ==
    UNION { [1..n -> {"AIN0", "AIN1", "AIN2"}] : n \in 0..MaxScanInputs }

\* values of enabled_stream_outs (line 59): lists of stream-out names
ScanOuts ==
    UNION { [1..n -> {StreamOutName(STREAM_OUT_INDEX),
                      StreamOutName(TTL_STREAM_OUT_INDEX)}] : n \in 0..MaxScanOuts }

\* an open controller whose configuration carries one of the input lists
InitScan ==
    /\ dev = [streaming |-> FALSE, out |-> [i \in 0..1 |-> IdleChannel],
              dac0 |-> LED_IDLE_MV, fio |-> 0, scan0 |-> 0, has_optional |-> TRUE]
    /\ handle = "open"
    /\ ctl = [InitCtl EXCEPT !.num_inputs = Len(InputNames)]
    /\ \E names \in ScanInputs :
          args = [num_frames |-> 0, rate_mhz |-> 30000,
                  width_us |-> START_PULSE_WIDTH_US, log |-> FALSE,
                  scan_rate_hz |-> STREAM_SCAN_RATE_HZ,
                  led_frequency_mhz |-> 1000 * LED_FREQUENCY_HZ,
                  input_names |-> names]
    /\ pc = "api"
    /\ stack = <<>>
    /\ pending = "none"
    /\ exc = "none"
    /\ ld = NoLoad
    /\ rd = InitRun
    /\ now = 0
    /\ hist = HistAt(dev)
    /\ cam = NoCamera

\* lines 59-62, 222: stream_config.build_scan_list(enabled_stream_outs); the
\* list it returns is kept as the scan list
ApiBuildScanList ==
    /\ pc = "api"
    /\ \E outs \in ScanOuts :
          /\ ctl' = [ctl EXCEPT !.scan_list = build_scan_list(args.input_names, outs)]
          /\ hist' = [hist EXCEPT !.call = <<args.input_names, outs>>]
    /\ pc' = "built"
    /\ UNCHANGED <<dev, handle, args, cam, stack, pending, exc, ld, rd, now>>

NextScan ==
    ApiBuildScanList

SpecScan == InitScan /\ [][NextScan]_vars

(* ================================================================== *)
(* run_experiment.main: the camera thread and the LabJack run             *)
(* ================================================================== *)
\* NUM_FRAMES of run_experiment.py (line 21), 5400 there
ExperimentFrames == 2

\* run_experiment.py line 45: time.sleep(1.0), in microseconds
CameraStartDelayUs == 1000000

\* run_experiment.py line 29: timeout_ms = max(1000, int((1.0 / 30.0) * 2000)),
\* in microseconds
CameraTimeoutUs == 1000000

\* how long the camera thread takes from its start to BeginAcquisition
\* (spinnaker_trigger.py lines 113-143: GetInstance, GetCameras, Init, the
\* trigger, binning and exposure nodes, the video writer), in microseconds
CameraSetupUs == {300000, 1500000}

\* what the setup ends with: done, no camera on the bus (RuntimeError, line
\* 116) or a SpinnakerException of one of its calls (caught at line 185)
CameraSetupOutcomes == {"ok", "no_camera", "spinnaker"}

\* main() is entered with the arguments of lines 47-52, on a device that
\* idles after power-up and has the optional digital registers
InitExperiment ==
    /\ dev \in {d \in InitDev : /\ ~d.streaming /\ d.dac0 = LED_IDLE_MV
                                /\ d.fio = 0 /\ d.has_optional}
    /\ handle = "none"
    /\ ctl = InitCtl
    /\ args = [num_frames |-> ExperimentFrames, rate_mhz |-> 30000,
               width_us |-> START_PULSE_WIDTH_US, log |-> TRUE,
               scan_rate_hz |-> STREAM_SCAN_RATE_HZ,
               led_frequency_mhz |-> 1000 * LED_FREQUENCY_HZ,
               input_names |-> InputNames]
    /\ pc = "main"
    /\ stack = <<>>
    /\ pending = "none"
    /\ exc = "none"
    /\ ld = NoLoad
    /\ rd = InitRun
    /\ now = 0
    /\ hist = HistAt(dev)
    /\ cam = NoCamera

\* run_experiment.py lines 30-43: the thread is built and started
MainStartCamera ==
    /\ pc = "main"
    /\ \E d \in CameraSetupUs :
          cam' = [cam EXCEPT !.pc = "setup", !.ready_at = now + d]
    /\ pc' = "main_sleep"
    /\ UNCHANGED <<dev, handle, ctl, args, stack, pending, exc, ld, rd, now, hist>>

\* run_experiment.py lines 45-47: time.sleep(1.0), then run_pulsed_stream is called
MainSleep ==
    /\ pc = "main_sleep"
    /\ now' = now + CameraStartDelayUs
    /\ pc' = "start"
    /\ UNCHANGED <<dev, handle, ctl, args, cam, stack, pending, exc, ld, rd, hist>>

\* the trigger line carries the pulse train: the stream runs with the TTL
\* stream-out on its scan list
TriggerPlaying ==
    Playing(dev, ctl.scan_list, TTL_STREAM_OUT_INDEX)

\* the time until which the camera thread is blocked: the end of its setup, or
\* the earliest timeout of a GetNextImage that gets no frame
CameraBlockedUntil ==
    IF cam.pc = "setup" THEN cam.ready_at
    ELSE IF cam.pc = "acquire" /\ cam.frames_saved < args.num_frames /\ ~TriggerPlaying
         THEN cam.ready_at + CameraTimeoutUs
         ELSE now

\* run_experiment.py line 54 (or the interpreter's wait for the non-daemon
\* thread when run_pulsed_stream raised): time passes while the camera thread
\* is blocked
MainJoinWait ==
    /\ pc \in {"done", "raised"}
    /\ now < CameraBlockedUntil
    /\ now' = CameraBlockedUntil
    /\ UNCHANGED <<dev, handle, ctl, args, cam, pc, stack, pending, exc, ld, rd, hist>>

\* run_experiment.py lines 54-55: cam_thread.join() returns
MainJoin ==
    /\ pc = "done"
    /\ cam.pc = "finished"
    /\ pc' = "exit"
    /\ UNCHANGED <<dev, handle, ctl, args, cam, stack, pending, exc, ld, rd, now, hist>>

\* spinnaker_trigger.py lines 113-143: the camera is found, initialised and
\* configured; a failure ends the thread (lines 185-200)
CamSetup ==
    /\ cam.pc = "setup"
    /\ now >= cam.ready_at
    /\ \E o \in CameraSetupOutcomes :
          cam' = [cam EXCEPT !.pc = IF o = "ok" THEN "begin" ELSE "finished"]
    /\ UNCHANGED <<dev, handle, ctl, args, pc, stack, pending, exc, ld, rd, now, hist>>

\* a camera thread that raises the trigger line itself once it acquires
CamBeginAcquisitionDrivesLine ==
    /\ cam.pc = "begin"
    /\ cam' = [cam EXCEPT !.pc = "acquire", !.begun = TRUE, !.frames_saved = 0]
    /\ dev' = DevWrite(dev, "FIO_STATE", 0, Fio0Word(TRUE))
    /\ UNCHANGED <<handle, ctl, args, pc, stack, pending, exc, ld, rd, now, hist>>

\* spinnaker_trigger.py lines 145-146: cam.BeginAcquisition(); from now on a
\* trigger pulse exposes a frame
CamBeginAcquisition ==
    /\ cam.pc = "begin"
    /\ cam' = [cam EXCEPT !.pc = "acquire", !.begun = TRUE, !.frames_saved = 0]
    /\ UNCHANGED <<dev, handle, ctl, args, pc, stack, pending, exc, ld, rd, now, hist>>

\* spinnaker_trigger.py lines 148-172 and 173-200: one iteration of the frame
\* loop.  GetNextImage(timeout_ms) returns the frame a trigger pulse exposed,
\* complete or not, while the pulse train plays; without pulses it raises
\* SpinnakerException once timeout_ms have passed, which is no sooner than
\* timeout_ms after the setup, and the thread ends through its finally blocks.
CamGetNextImage ==
    /\ cam.pc = "acquire"
    /\ cam.frames_saved < args.num_frames
    /\ IF TriggerPlaying
       THEN \E complete \in BOOLEAN :
               cam' = [cam EXCEPT !.frames_saved = IF complete THEN @ + 1 ELSE @]
       ELSE /\ now >= cam.ready_at + CameraTimeoutUs
            /\ cam' = [cam EXCEPT !.pc = "finished", !.frames_saved = 0]
    /\ UNCHANGED <<dev, handle, ctl, args, pc, stack, pending, exc, ld, rd, now, hist>>

\* spinnaker_trigger.py lines 148 and 173-200: num_frames frames are saved;
\* EndAcquisition, trigger mode off, the writers closed, DeInit; the thread ends
CamEndAcquisition ==
    /\ cam.pc = "acquire"
    /\ ~(cam.frames_saved < args.num_frames)
    /\ cam' = [cam EXCEPT !.pc = "finished", !.frames_saved = 0]
    /\ UNCHANGED <<dev, handle, ctl, args, pc, stack, pending, exc, ld, rd, now, hist>>

NextExperiment ==
    \/ MainStartCamera
    \/ MainSleep
    \/ MainJoinWait
    \/ MainJoin
    \/ CamSetup
    \/ CamBeginAcquisition
    \/ CamGetNextImage
    \/ CamEndAcquisition
    \/ Construct
    \/ CcStreamStop
    \/ CcWrite
    \/ CcOptionalWrite
    \/ CcDacIdle
    \/ CcFioLow
    \/ PrepareTtlWaveform
    \/ StartStreamBegin
    \/ ConfigureLedStreamOut
    \/ StartStreamTtl
    \/ ConfigureTtlStreamOut
    \/ SoHeaderWrite
    \/ SoBufferWrite
    \/ SoSetLoop
    \/ SoReturn
    \/ StartStreamStart
    \/ RunOpenLog
    \/ ReadChunk
    \/ LogChunkRow
    \/ DrainPadding
    \/ DrainEnd
    \/ FinallyStop
    \/ FinallyDisableTtl
    \/ FinallyClose
    \/ FinallyEnd
    \/ StopStreamBegin
    \/ StopStreamTtl
    \/ StopStreamStop
    \/ StopStreamDisableOut0
    \/ StopStreamDacIdle
    \/ StopStreamEnd
    \/ DisableTtlEnable
    \/ DisableTtlFioLow
    \/ CloseStop
    \/ CloseHandle

SpecExperiment == InitExperiment /\ [][NextExperiment]_vars

(* ================================================================== *)
(* Claims                                                                *)
(* ================================================================== *)
\* run_pulsed_stream has ended: returned, or left by an exception
RunEnded ==
    pc \in {"done", "raised"}

\* C1: on every exit path of run_pulsed_stream that got as far as start_stream
\* (the scan list is set), teardown has run: the run never ends with the device
\* handle still open.
C1_TeardownOnEveryExit ==
    (RunEnded /\ ctl.scan_list # <<>>) => handle = "closed"

\* C2: a stop_stream entered with no scan loop running does not raise because
\* the stop primitive (eStreamStop) reports that nothing was running.
C2_StopWhenIdleDoesNotRaise ==
    (hist.ss_calls > 0 /\ ~hist.ss_entry.streaming) => hist.ss_raised # "STREAM_STOP"

\* the primary output is in its stopped state
PrimaryStopped(d) ==
    d.out[STREAM_OUT_INDEX].enable = 0 /\ d.dac0 = LED_IDLE_MV

\* the step on which a call of stop_stream ends, by return or by exception
ExitStop ==
    InStopStream /\ ~InStopStream'

\* C3: when stop_stream is called a second time, the primary output is stopped
\* (STREAM_OUT0 disabled, DAC0 at LED_IDLE_V) after the first call and after
\* the second, and the second call leaves the device state equal to the state
\* the first call left.
C3_StopTwiceSameState ==
    [][(ExitStop /\ hist.ss_calls = 2)
         => /\ PrimaryStopped(hist.ss_entry)
            /\ PrimaryStopped(dev')
            /\ dev' = hist.ss_entry]_vars

\* the hardware calls of a complete stop_stream, in the order of C4
StopStreamSteps ==
    <<"STREAM_OUT1_ENABLE", "FIO_STATE", "STREAM_STOP", "STREAM_OUT0_ENABLE", "DAC0">>

IsPrefix(s, t) ==
    Len(s) <= Len(t) /\ \A k \in 1..Len(s) : s[k] = t[k]

C5_BacklogErrorRaised ==
    hist.over => (pending = "BacklogExceededError" \/ exc = "BacklogExceededError")

\* C6: the scan rate read_stream_chunk returns during the drain is the rate
\* eStreamStart reported, and every logged row's timestamp is its scan index
\* divided by that reported rate (time = p/q with p * rate = index * q).
C6_TimestampsUseReportedRate ==
    /\ pc \in {"loop1", "loop2", "log_row"} => ctl.actual_rate = hist.reported_rate
    /\ rd.last_row.index >= 0
         => /\ rd.last_row.time[2] # 0
            /\ rd.last_row.time[1] * hist.reported_rate
                 = rd.last_row.index * rd.last_row.time[2]

\* C6 witness: a row past the first is logged while the device reported a rate
\* other than the requested one
C6_Witness ==
    /\ rd.last_row.index > 0
    /\ hist.reported_rate # STREAM_SCAN_RATE_HZ

\* the stream-out channel the load in progress configures
Loading ==
    dev.out[ld.index]

\* C7: once _configure_stream_out has sized the buffer of the channel it is
\* loading, the buffer holds the whole waveform: a waveform longer than the
\* hardware maximum is rejected before BUFFER_SIZE, LOOP_SIZE or a sample is
\* written.
C7_OversizeRejected ==
    pc \in {"so_en", "so_loopsize", "so_buf", "so_setloop", "so_done"}
      => SLen(ld.waveform) <= Loading.buffer_size

IsPowerOfTwo(n) ==
    \E k \in 0..13 : n = 2 ^ k

\* C8: when a load of N samples, 1 <= N <= 8192, has completed, BUFFER_SIZE of
\* the channel is a power of two, at least N and at most 8192, and LOOP_SIZE is
\* N.
C8_BufferSizeAndLoopSize ==
    (pc = "so_done" /\ SLen(ld.waveform) \in 1..MAX_BUFFER_SIZE)
      => /\ IsPowerOfTwo(Loading.buffer_size)
         /\ Loading.buffer_size >= SLen(ld.waveform)
         /\ Loading.buffer_size <= MAX_BUFFER_SIZE
         /\ Loading.loop_size = SLen(ld.waveform)

\* C8 witness: a completed load whose length is above the minimum buffer size
\* and not a power of two, so that the buffer is padded
C8_Witness ==
    /\ pc = "so_done"
    /\ SLen(ld.waveform) \in (MIN_BUFFER_SIZE + 1)..MAX_BUFFER_SIZE
    /\ ~IsPowerOfTwo(SLen(ld.waveform))

\* C9: a sample write fails at most WRITE_ATTEMPTS times in a row; while the
\* loop runs, with fewer failures than that, the buffer holds exactly the
\* samples before the current one, in waveform order (a failed write is retried
\* on the same sample, a success moves to the next); the failures reach
\* WRITE_ATTEMPTS only by the LJMError leaving the loader, with nothing written
\* past the samples before the failing one.
C9_BoundedRetryInOrder ==
    /\ hist.fails <= WRITE_ATTEMPTS
    /\ pc = "so_buf"
         => /\ hist.fails < WRITE_ATTEMPTS
            /\ ld.i \in 1..SLen(ld.waveform)
            /\ Loading.buffer = STake(ld.waveform, ld.i - 1)
    /\ (hist.fails > 0 /\ pc # "so_buf")
         => /\ hist.fails = WRITE_ATTEMPTS
            /\ pc = "raised" /\ exc = "LJMError"
            /\ Loading.buffer = STake(ld.waveform, ld.i - 1)

\* C9 witness: the third failure in a row, on a sample past the first, has
\* left the loader
C9_Witness ==
    /\ pc = "raised"
    /\ hist.fails = WRITE_ATTEMPTS
    /\ ld.i > 1

\* LoadedAlone(l) is the channel state the load l leaves on a channel never
\* loaded before.
\* C10: when a load has completed, the channel state is the state that load
\* leaves on a fresh channel, whatever was loaded at the index before.
C10_LoadIdempotentPerIndex ==
    pc = "so_done" => Loading = LoadedAlone(ld)

\* C10 witness: a load has completed on a channel that held a longer looping
\* waveform
C10_Witness ==
    /\ pc = "so_done"
    /\ hist.prev_len > SLen(ld.waveform)

\* the configured scan rate is below twice the configured LED frequency
RatioBelowTwo ==
    1000 * args.scan_rate_hz < 2 * args.led_frequency_mhz

\* C11: with scan rate / frequency < 2, configure_led_stream_out leaves by a
\* ValueError without reaching a register write of the loader and with the
\* stream-out channels untouched; with a ratio >= 2 no ValueError is raised.
C11_SineRatioGuard ==
    /\ RatioBelowTwo
         => /\ pc \in {"api", "led_begin", "raised"}
            /\ pc = "raised" => exc = "ValueError"
            /\ dev.out = [i \in 0..1 |-> IdleChannel]
    /\ ~RatioBelowTwo => exc # "ValueError"

\* C11 witness: the error is raised for a ratio of at least 1 and below 2
C11_Witness ==
    /\ RatioBelowTwo
    /\ 1000 * args.scan_rate_hz >= args.led_frequency_mhz
    /\ pc = "raised" /\ exc = "ValueError"

\* C12: the sine handed to the loader has round(scan_rate / frequency)
\* samples, whether or not the ratio is an integer.
C12_SineLengthRounded ==
    (pc = "so_dis" /\ ld.index = STREAM_OUT_INDEX)
      => SLen(ld.waveform) = RoundHalfEven(1000 * args.scan_rate_hz, args.led_frequency_mhz)

\* max(1, round(scan_rate / max(pulse_rate, epsilon))) for the prepared inputs
C13_Period ==
    LET r == IF args.rate_mhz > MIN_RATE_MHZ THEN args.rate_mhz ELSE MIN_RATE_MHZ
        n == RoundHalfEven(1000 * STREAM_SCAN_RATE_HZ, r)
    IN  IF n < 1 THEN 1 ELSE n

\* round(pulse_width * scan_rate) clamped to 1 .. samples_per_period
C13_High ==
    LET h == RoundHalfEven(args.width_us * STREAM_SCAN_RATE_HZ, 1000000)
    IN  IF h < 1 THEN 1 ELSE IF h > C13_Period THEN C13_Period ELSE h

\* C13: after prepare_ttl_waveform with a count above 0 the waveform is
\* high_samples 'line high' words followed by only 'line low' words, of
\* samples_per_period words in all, and the duration is positive; with a count
\* of 0 or less there is no waveform and the duration is 0.
C13_TtlWaveformShape ==
    pc = "prepared"
      => IF args.num_frames <= 0
         THEN ctl.ttl_waveform = <<>> /\ ctl.ttl_duration = 0
         ELSE /\ SLen(ctl.ttl_waveform) = C13_Period
              /\ ctl.ttl_waveform[1] = [v |-> FIO0_MASK_ALLOW * 256 + 1, c |-> C13_High]
              /\ \A k \in 2..Len(ctl.ttl_waveform) :
                    ctl.ttl_waveform[k].v = FIO0_MASK_ALLOW * 256
              /\ ctl.ttl_duration > 0

\* C13 witness: the example of the claim, 300 pulses at 30 Hz, 1 ms wide: 133
\* words, 4 high then 129 low, 10 s
C13_Witness ==
    /\ pc = "prepared"
    /\ args.num_frames = 300 /\ args.rate_mhz = 30000 /\ args.width_us = 1000
    /\ ctl.ttl_waveform = << [v |-> 65025, c |-> 4], [v |-> 65024, c |-> 129] >>
    /\ ctl.ttl_duration = 10000000

\* a port word whose mask inhibits FIO1..FIO7 and not FIO0, and whose level
\* bits are clear except perhaps that of FIO0
SelectsOnlyFio0(w) ==
    /\ Bit(w \div 256, 0) = 0
    /\ \A b \in 1..7 : Bit(w \div 256, b) = 1 /\ Bit(w % 256, b) = 0
    /\ w < 65536

\* C14: the last word written by _set_fio0_state (also from
\* fire_camera_start_pulse) and every word of the TTL waveform, as prepared and
\* as loaded, selects exactly FIO0; and the levels of FIO1..FIO7 are those the
\* port had when the handle was opened.
C14_PortWordsTouchOnlyFio0 ==
    /\ hist.word # -1 => SelectsOnlyFio0(hist.word)
    /\ \A k \in 1..Len(ctl.ttl_waveform) : SelectsOnlyFio0(ctl.ttl_waveform[k].v)
    /\ \A k \in 1..Len(dev.out[TTL_STREAM_OUT_INDEX].buffer) :
          SelectsOnlyFio0(dev.out[TTL_STREAM_OUT_INDEX].buffer[k].v)
    /\ dev.fio \div 2 = hist.fio_open \div 2

\* C14 witness: fire_camera_start_pulse has driven FIO0 high on a port whose
\* FIO0 was low and whose other lines are not all at one level
C14_Witness ==
    /\ pc = "fp_sleep"
    /\ hist.fio_open = 170
    /\ dev.fio = 171

\* C15: when the stream engine has been started by the run, so that the pulse
\* train begins, the one-shot start pulse of fire_camera_start_pulse has been
\* emitted.
C15_StartPulseBeforeTrain ==
    hist.reported_rate # 0 => hist.start_pulse

\* C16: with a pulse train of n > 0 pulses armed, the looped playback never
\* puts more than n pulses on the trigger line: none is added while a blocking
\* read completes or during the post-run padding.
C16_NoPulseBeyondCount ==
    args.num_frames > 0 => hist.pulses <= args.num_frames

\* C17: build_scan_list returns the configured inputs, in their order,
\* followed by the enabled stream-outs, in their order, nothing added, dropped
\* or reordered, and leaves the configured input list as it was.
C17_ScanListInputsThenOutputs ==
    pc = "built" =>
        LET inputs == hist.call[1]
            outs   == hist.call[2]
            ret    == ctl.scan_list
        IN  /\ Len(ret) = Len(inputs) + Len(outs)
            /\ \A k \in 1..Len(inputs) : ret[k] = inputs[k]
            /\ \A k \in 1..Len(outs) : ret[Len(inputs) + k] = outs[k]
            /\ args.input_names = inputs

\* [A, B, C] with [O1] gives [A, B, C, O1]
C17_Witness ==
    /\ pc = "built"
    /\ hist.call = <<InputNames, <<StreamOutName(TTL_STREAM_OUT_INDEX)>> >>
    /\ ctl.scan_list = <<"AIN0", "AIN1", "AIN2", "STREAM_OUT1">>

\* the registers written through _write_optional_register (lines 113, 280, 284)
OptionalRegisters == {"DIO_ANALOG_ENABLE", "FIO_DIRECTION", "FIO_STATE"}

\* C18: a failed register write is discarded without reaching the caller only
\* when it is the illegal-address failure of an optional register: the
\* illegal-address failure of any other register, and any other failure of an
\* optional register, is never discarded.
C18_OnlyOptionalRegistersTolerated ==
    (hist.caught # <<>> /\ hist.caught[1] # "STREAM_STOP") =>
        ((hist.caught[2] = "illegal") <=> (hist.caught[1] \in OptionalRegisters))

\* the methods whose except clauses belong to the cleanup paths
CleanupPaths == {"disable_ttl_stream", "close"}

\* C19: the only hardware I/O error a cleanup path discards is the stop
\* primitive's report that the stream was already stopped; an I/O error of any
\* other cleanup operation reaches the caller.
C19_CleanupSwallowsOnlyAlreadyStopped ==
    (hist.caught # <<>> /\ hist.caught[3] \in CleanupPaths /\ hist.caught[2] # "illegal") =>
        (hist.caught[1] = "STREAM_STOP" /\ hist.caught[2] = "stopped")

\* C20: in the two-thread experiment no trigger pulse is on the line before
\* the camera thread has called BeginAcquisition, whatever the interleaving of
\* the two threads.
C20_CameraAcquiringBeforePulses ==
    (cam.pc # "none" /\ hist.pulses > 0) => cam.begun

\* C21: the LabJack handle has one owner.  A step of the camera thread leaves
\* the device, the handle and every local of the stream engine as they were,
\* and a step that changes the device or the handle is not a step of the
\* camera thread: no two hardware operations on the handle can overlap.
C21_SingleOwnerOfHandle ==
    [][ /\ (cam.pc # "none" /\ cam' # cam)
            => UNCHANGED <<dev, handle, ctl, ld, rd, pc, stack, pending, exc, hist>>
        /\ (dev' # dev \/ handle' # handle \/ ctl' # ctl)
            => cam' = cam ]_vars

\* the camera thread has saved a frame while the main thread streams on its
\* open handle
C21_Witness ==
    /\ cam.pc = "acquire"
    /\ cam.frames_saved > 0
    /\ handle = "open"
    /\ dev.streaming
    /\ pc = "loop1"

\* the deadline of the drain loop: the pulse-train duration plus the post-run
\* padding, from the time the stream started
DrainDeadline ==
    dev.scan0 + ctl.ttl_duration + POST_RUN_PADDING_US

\* C22: the drain loop is bounded by the pulse-train duration plus the post-run
\* padding, measured from stream start: no read_stream_chunk is issued once
\* that deadline has passed.
C22_NoReadPastDeadline ==
    [][ (pc \in {"loop1", "loop2"} /\ now' > now) => now < DrainDeadline ]_vars

\* stream-out i is named in the scan list start_stream submits
Named(i) ==
    \E k \in 1..Len(ctl.scan_list) : ctl.scan_list[k] = StreamOutName(i)

\* the waveform start_stream is to load into stream-out i
ArmedWaveform(i) ==
    IF i = STREAM_OUT_INDEX
    THEN SineWaveform(LedSamplesPerPeriod, LedSamplesPerPeriod)
    ELSE ctl.ttl_waveform

\* stream-out i holds its whole waveform, loops over it and is enabled
Armed(i) ==
    /\ dev.out[i].enable = 1
    /\ dev.out[i].buffer = ArmedWaveform(i)
    /\ dev.out[i].loop_size = SLen(ArmedWaveform(i))
    /\ dev.out[i].set_loop = 1

\* C23: when start_stream is about to issue eStreamStart, the scan list names
\* STREAM_OUT0, names STREAM_OUT1 exactly when a TTL waveform is prepared, and
\* every stream-out it names is fully loaded and enabled; a chunk is read only
\* after a successful start and before the first stop.
C23_StartOnlyWhenArmed ==
    /\ pc = "st_start" =>
          /\ Named(STREAM_OUT_INDEX)
          /\ Named(TTL_STREAM_OUT_INDEX) <=> (ctl.ttl_waveform # <<>>)
          /\ \A i \in {STREAM_OUT_INDEX, TTL_STREAM_OUT_INDEX} : Named(i) => Armed(i)
    /\ pc \in {"loop1", "loop2", "log_row"} =>
          /\ hist.reported_rate # 0
          /\ hist.ss_calls = 0
          /\ dev.streaming

\* a chunk has been read from a stream that was started with both stream-outs
\* armed
C23_Witness ==
    /\ pc = "loop2"
    /\ now > 0
    /\ dev.streaming
    /\ Named(TTL_STREAM_OUT_INDEX)
    /\ Armed(STREAM_OUT_INDEX)
    /\ Armed(TTL_STREAM_OUT_INDEX)

\* the row last written holds one value per input channel, in the order of
\* the input list, all of the same scan of the chunk
RowWellFormed(row) ==
    /\ Len(row.values) = Len(InputNames)
    /\ \A ch \in 1..Len(InputNames) :
          /\ row.values[ch][2] = InputNames[ch]
          /\ row.values[ch][1] = row.values[1][1]
    /\ row.values[1][1] < SCANS_PER_READ

\* C24: whatever the length of a chunk, log_chunk writes at most scans_per_read
\* rows from it, none beyond the values the chunk holds, each row with one
\* value per input channel in input-list order; over the run the logged
\* indices are 0, 1, 2, ... with no gap and no repeat.
C24_LogRowsTrimmedAndConsecutive ==
    /\ [](/\ pc = "log_row" =>
               /\ rd.scans <= SCANS_PER_READ
               /\ rd.scans * Len(InputNames) <= rd.data_len
               /\ rd.scan < rd.scans
          /\ rd.last_row # NoRow => RowWellFormed(rd.last_row)
          /\ rd.last_row.index = rd.sample_index - 1)
    /\ [][rd'.last_row # rd.last_row
            => rd'.last_row.index = rd.last_row.index + 1]_vars

\* the last row of an over-long chunk is about to be written, after rows of
\* an earlier chunk
C24_Witness ==
    /\ pc = "log_row"
    /\ rd.data_len > SCANS_PER_READ * Len(InputNames)
    /\ rd.data_len % Len(InputNames) # 0
    /\ rd.scan = SCANS_PER_READ - 1
    /\ rd.last_row.index > SCANS_PER_READ

====
